---- MODULE Spec2Model ----
(***************************************************************************)
(* Model of the connector package: the transactional counter operations    *)
(* of datastoreAtomicConnector (Count, IncrementCounter, DecrementCounter) *)
(* running against a transactional key-value store, and the constructors   *)
(* that build the store client.                                            *)
(*                                                                         *)
(* The store itself is the cloud.google.com/go/datastore client, which is  *)
(* not part of the package.  It is modelled at the call sites by what the  *)
(* package relies on: Put only enqueues a mutation, Commit applies the     *)
(* enqueued mutations atomically and is refused when an entity read by the *)
(* transaction was committed by another transaction since the read         *)
(* (ErrConcurrentTransaction), a read of an absent entity reports          *)
(* ErrNoSuchEntity, a key with an empty name is incomplete and cannot be   *)
(* read, and every call to the store may fail because the store is         *)
(* unavailable.  Calling a method on a nil *Transaction panics.            *)
(***************************************************************************)
EXTENDS Integers, Sequences, FiniteSets, TLC

\* ---------------------------------------------------------------- bounds
NumProcs == 2
MaxCalls == 3
MaxFaults == 1
MaxDelta == 2

Procs == 1..NumProcs
EntityIDs == {"", "a", "b"}
Deltas == -1..MaxDelta

VARIABLES
    store,       \* the committed entities: [id -> [present, amount, ver]]
    pc,          \* per caller: the statement it is about to execute
    fn,          \* per caller: the method it is in
    entityID,    \* per caller: parameter entityID
    arg,         \* per caller: parameter incrementAmount / decrementAmount
    t,           \* per caller: the transaction handle returned by NewTransaction
    counter,     \* per caller: local counter.Amount
    err,         \* per caller: local err
    lastRet,     \* the call that returned last and what it returned (history variable)
    obs,         \* per caller: what happened during the current call (history variable)
    crashed,     \* the process died of an unrecovered panic
    faults,      \* number of store failures so far
    ncalls,      \* number of calls made so far
    hist,        \* the committed writes, in commit order (history variable)
    aborts       \* number of commits refused with ErrConcurrentTransaction

cvars == <<store, pc, fn, entityID, arg, t, counter, err, lastRet,
           obs, crashed, faults, ncalls, hist, aborts>>

\* The constructors' state.
VARIABLES
    kpc,         \* per caller: the statement of the constructor it is about to execute
    kfn,         \* per caller: the constructor it is in
    kargs,       \* per caller: emulatorEnable, datastoreEmulatorAddr, gcloudCredentialsPath
    kmode,       \* per caller: the value of getClientType(...) switched on
    inst,        \* per caller: the client of the connector being built (0: nil)
    handle,      \* per caller: the client of the connector its last call returned
    once,        \* package variable once (sync.Once): "fresh", "running" or "done"
    Instance,    \* package variable Instance: allocated?, and its client (0: nil)
    clients,     \* every client datastore.NewClient has built: mode and emulator host
    env,         \* DATASTORE_EMULATOR_HOST in the process environment ("": unset)
    exited,      \* log.Fatal has ended the process
    kcalls       \* number of constructor calls so far

kvars == <<kpc, kfn, kargs, kmode, inst, handle, once, Instance, clients, env,
           exited, kcalls>>

\* The entity service's state (Save, Update, Retrieve, Delete, Exist).
VARIABLES
    ents,        \* the stored entities under named keys: [id -> content, or NoContent]
    autoEnts,    \* the contents stored under keys the store allocated, in order
    eret,        \* the entity call that returned last and what it returned (history variable)
    eprev,       \* the entity call that returned before it (history variable)
    everSaved,   \* the ids a Save or Update has stored so far (history variable)
    efaults,     \* number of store failures of entity calls so far
    ecalls       \* number of entity calls so far

evars == <<ents, autoEnts, eret, eprev, everSaved, efaults, ecalls>>

vars == <<cvars, kvars, evars>>

\* ------------------------------------------------------------ the store
NoEntity == [present |-> FALSE, amount |-> 0, ver |-> 0]

\* The Amount a reader finds under id; an absent entity leaves the
\* destination struct at its zero value.
Amount(id) == IF store[id].present THEN store[id].amount ELSE 0

\* A slip: the key is built without the entityID, so every counter of the
\* collection lies under one key.
inboundKeyOfCollection(id) == "a"

\* inboundKey := datastore.NameKey(d.CollectionName, entityID, nil): within
\* the collection the key is the entityID.
inboundKey(id) == id

\* A key built by datastore.NameKey with an empty name is incomplete.
Incomplete(id) == id = ""

NilTx == [nil |-> TRUE, readVer |-> -1, put |-> FALSE, putAmount |-> 0]
NewTx == [nil |-> FALSE, readVer |-> -1, put |-> FALSE, putAmount |-> 0]

\* The store may fail a call while the failure budget lasts.
FaultChoices == IF faults < MaxFaults THEN BOOLEAN ELSE {FALSE}

NoObs == [before |-> 0, failed |-> FALSE, wrote |-> FALSE]
NoResult == [fn |-> "none", entityID |-> "", arg |-> 0, success |-> FALSE,
             amount |-> 0, before |-> 0, failed |-> FALSE, wrote |-> FALSE]

CInit ==
    /\ store = [id \in EntityIDs |-> NoEntity]
    /\ pc = [p \in Procs |-> "idle"]
    /\ fn = [p \in Procs |-> "none"]
    /\ entityID = [p \in Procs |-> ""]
    /\ arg = [p \in Procs |-> 0]
    /\ t = [p \in Procs |-> NilTx]
    /\ counter = [p \in Procs |-> 0]
    /\ err = [p \in Procs |-> "nil"]
    /\ lastRet = NoResult
    /\ obs = [p \in Procs |-> NoObs]
    /\ crashed = FALSE
    /\ faults = 0
    /\ ncalls = 0
    /\ hist = <<>>
    /\ aborts = 0

\* -------------------------------------------------- the counter arithmetic
\* A slip: the amount is assigned instead of added.
IncrementAmountOverwrite(cur, d) == d

\* IncrementCounter: counter.Amount = counter.Amount + incrementAmount
IncrementAmount(cur, d) == cur + d

\* A slip: the clamp at zero is left out.
DecrementNoClamp(cur, d) == cur - d

\* DecrementCounter: counter.Amount = counter.Amount - decrementAmount,
\* then set to 0 when negative.
DecrementAmount(cur, d) == IF cur - d < 0 THEN 0 ELSE cur - d

\* A slip: the polarity of Delete, success set when the commit failed.
SuccessOnError(e) == e # "nil"

\* if err == nil { success = true }
Success(e) == e = "nil"

\* if err == nil || err == datastore.ErrNoSuchEntity
ReadAccepted(e) == e = "nil" \/ e = "ErrNoSuchEntity"

\* Count: amount is 0 when err != nil and counter.Amount when err == nil.
CountAmount(e, cur) == IF e # "nil" THEN 0 ELSE cur

\* ------------------------------------------------ calls on the transaction
\* A slip: the read is made with d.client.Get, outside the transaction,
\* which then has seen nothing.
ReadOutsideTx(tx, id) == tx

\* A slip: a read that also enqueues the entity it read, creating it when it
\* is absent.
ReadOrCreate(tx, id) ==
    [tx EXCEPT !.readVer = store[id].ver, !.put = TRUE,
               !.putAmount = store[id].amount]

\* t.Get(inboundKey, &counter): the read is made through the transaction, so
\* the transaction remembers the version of the entity it has seen.
ReadInTx(tx, id) == [tx EXCEPT !.readVer = store[id].ver]

\* A slip: the write is left out, so the transaction commits nothing.
EnqueueNothing(tx, amt) == tx

\* t.Put(inboundKey, &counter): the mutation is enqueued in the transaction.
Enqueue(tx, amt) == [tx EXCEPT !.put = TRUE, !.putAmount = amt]

\* The outcomes of t.Get for the caller's key.
GetOutcomes(id) ==
    IF Incomplete(id) THEN {"ErrIncompleteKey"}
    ELSE {IF store[id].present THEN "nil" ELSE "ErrNoSuchEntity"}
         \cup (IF faults < MaxFaults THEN {"error"} ELSE {})

\* The outcomes of t.Commit(): refused when an entity the transaction read
\* has been committed by another transaction since.
CommitOutcomes(tx, id) ==
    (IF tx.readVer # -1 /\ store[id].ver # tx.readVer
        THEN {"ErrConcurrentTransaction"} ELSE {"nil"})
    \cup (IF faults < MaxFaults THEN {"error"} ELSE {})

Unexpected(e) == ~ReadAccepted(e)

\* ------------------------------------------------------------- the steps
\* The call is made and its first statement runs:
\*     t, err := d.client.NewTransaction(d.ctx)
\* err is not looked at; on failure t is nil.
Enter(p, f, id, d, fail) ==
    /\ ~crashed
    /\ pc[p] = "idle"
    /\ ncalls < MaxCalls
    /\ ncalls' = ncalls + 1
    /\ fn' = [fn EXCEPT ![p] = f]
    /\ entityID' = [entityID EXCEPT ![p] = id]
    /\ arg' = [arg EXCEPT ![p] = d]
    /\ counter' = [counter EXCEPT ![p] = 0]
    /\ t' = [t EXCEPT ![p] = IF fail THEN NilTx ELSE NewTx]
    /\ err' = [err EXCEPT ![p] = IF fail THEN "error" ELSE "nil"]
    /\ faults' = faults + (IF fail THEN 1 ELSE 0)
    /\ obs' = [obs EXCEPT ![p] = [NoObs EXCEPT !.before = Amount(id), !.failed = fail]]
    /\ pc' = [pc EXCEPT ![p] = "Get"]
    /\ UNCHANGED <<store, lastRet, crashed, hist, aborts>>
    /\ UNCHANGED <<kvars, evars>>

\*     err = t.Get(inboundKey, &counter)
\* On a nil transaction the method dereferences nil: the goroutine panics
\* and, nothing recovering it, the process dies.
Get(p, f, onAccepted, onError) ==
    /\ ~crashed
    /\ pc[p] = "Get"
    /\ fn[p] = f
    /\ IF t[p].nil
       THEN /\ crashed' = TRUE
            /\ pc' = [pc EXCEPT ![p] = "panic"]
            /\ UNCHANGED <<t, counter, err, faults, obs>>
       ELSE \E e \in GetOutcomes(inboundKey(entityID[p])) :
            /\ err' = [err EXCEPT ![p] = e]
            /\ counter' = [counter EXCEPT ![p] =
                              IF e = "nil" THEN store[inboundKey(entityID[p])].amount
                              ELSE @]
            /\ t' = [t EXCEPT ![p] =
                        IF ReadAccepted(e) THEN ReadInTx(@, inboundKey(entityID[p]))
                        ELSE @]
            /\ faults' = faults + (IF e = "error" THEN 1 ELSE 0)
            /\ obs' = [obs EXCEPT ![p].failed = @ \/ Unexpected(e)]
            /\ pc' = [pc EXCEPT ![p] = IF ReadAccepted(e) THEN onAccepted ELSE onError]
            /\ UNCHANGED crashed
    /\ UNCHANGED <<store, fn, entityID, arg, lastRet, ncalls, hist, aborts>>
    /\ UNCHANGED <<kvars, evars>>

\*     counter.Amount = <new amount>
\*     _, err = t.Put(inboundKey, &counter)
Put(p, f, new) ==
    /\ ~crashed
    /\ pc[p] = "Put"
    /\ fn[p] = f
    /\ counter' = [counter EXCEPT ![p] = new]
    /\ \E fail \in FaultChoices :
        /\ t' = [t EXCEPT ![p] = IF fail THEN @ ELSE Enqueue(@, new)]
        /\ err' = [err EXCEPT ![p] = IF fail THEN "error" ELSE "nil"]
        /\ faults' = faults + (IF fail THEN 1 ELSE 0)
        /\ obs' = [obs EXCEPT ![p].failed = @ \/ fail]
    /\ pc' = [pc EXCEPT ![p] = "Commit"]
    /\ UNCHANGED <<store, fn, entityID, arg, lastRet, crashed, ncalls, hist, aborts>>
    /\ UNCHANGED <<kvars, evars>>

\*     _, err = t.Commit()
\* err is overwritten with the result of Commit.
Commit(p, f) ==
    /\ ~crashed
    /\ pc[p] = "Commit"
    /\ fn[p] = f
    /\ \E e \in CommitOutcomes(t[p], inboundKey(entityID[p])) :
        LET id == entityID[p]
            applied == e = "nil" /\ t[p].put
        IN  /\ err' = [err EXCEPT ![p] = e]
            /\ faults' = faults + (IF e = "error" THEN 1 ELSE 0)
            /\ store' = IF applied
                        THEN [store EXCEPT ![inboundKey(id)] = [present |-> TRUE,
                                                    amount |-> t[p].putAmount,
                                                    ver |-> @.ver + 1]]
                        ELSE store
            /\ hist' = IF applied
                       THEN Append(hist, [id |-> id, fn |-> f, arg |-> arg[p]])
                       ELSE hist
            /\ aborts' = aborts + (IF e = "ErrConcurrentTransaction" THEN 1 ELSE 0)
            /\ obs' = [obs EXCEPT ![p].failed = @ \/ e # "nil", ![p].wrote = applied]
    /\ pc' = [pc EXCEPT ![p] = "return"]
    /\ UNCHANGED <<fn, entityID, arg, t, counter, lastRet, crashed, ncalls>>
    /\ UNCHANGED <<kvars, evars>>

\* The call returns; its locals are gone.
Return(p, f, ok, amt) ==
    /\ ~crashed
    /\ pc[p] = "return"
    /\ fn[p] = f
    /\ lastRet' = [fn |-> f, entityID |-> entityID[p], arg |-> arg[p],
                   success |-> ok, amount |-> amt,
                   before |-> obs[p].before, failed |-> obs[p].failed,
                   wrote |-> obs[p].wrote]
    /\ pc' = [pc EXCEPT ![p] = "idle"]
    /\ fn' = [fn EXCEPT ![p] = "none"]
    /\ entityID' = [entityID EXCEPT ![p] = ""]
    /\ arg' = [arg EXCEPT ![p] = 0]
    /\ t' = [t EXCEPT ![p] = NilTx]
    /\ counter' = [counter EXCEPT ![p] = 0]
    /\ err' = [err EXCEPT ![p] = "nil"]
    /\ obs' = [obs EXCEPT ![p] = NoObs]
    /\ UNCHANGED <<store, crashed, faults, ncalls, hist, aborts>>
    /\ UNCHANGED <<kvars, evars>>

\* ------------------------------------------------------- IncrementCounter
IncrementCounter_NewTransaction(p, ids) ==
    \E id \in ids, d \in Deltas, fail \in FaultChoices :
        Enter(p, "IncrementCounter", id, d, fail)

\* The block under  if err == nil || err == datastore.ErrNoSuchEntity  is
\* skipped on any other error.
IncrementCounter_Get(p) == Get(p, "IncrementCounter", "Put", "return")

IncrementCounter_Put(p) ==
    Put(p, "IncrementCounter", IncrementAmount(counter[p], arg[p]))

IncrementCounter_Commit(p) == Commit(p, "IncrementCounter")

IncrementCounter_Return(p) == Return(p, "IncrementCounter", Success(err[p]), 0)

\* ------------------------------------------------------- DecrementCounter
DecrementCounter_NewTransaction(p, ids) ==
    \E id \in ids, d \in Deltas, fail \in FaultChoices :
        Enter(p, "DecrementCounter", id, d, fail)

DecrementCounter_Get(p) == Get(p, "DecrementCounter", "Put", "return")

DecrementCounter_Put(p) ==
    Put(p, "DecrementCounter", DecrementAmount(counter[p], arg[p]))

DecrementCounter_Commit(p) == Commit(p, "DecrementCounter")

DecrementCounter_Return(p) == Return(p, "DecrementCounter", Success(err[p]), 0)

\* ------------------------------------------------------------------ Count
Count_NewTransaction(p, ids) ==
    \E id \in ids, fail \in FaultChoices : Enter(p, "Count", id, 0, fail)

\* Count commits whatever the read returned.
Count_Get(p) == Get(p, "Count", "Commit", "Commit")

Count_Commit(p) == Commit(p, "Count")

Count_Return(p) == Return(p, "Count", FALSE, CountAmount(err[p], counter[p]))

\* A step of caller p, whose calls are on the entity ids in ids.
CStep(p, ids) ==
    \/ IncrementCounter_NewTransaction(p, ids)
    \/ IncrementCounter_Get(p)
    \/ IncrementCounter_Put(p)
    \/ IncrementCounter_Commit(p)
    \/ IncrementCounter_Return(p)
    \/ DecrementCounter_NewTransaction(p, ids)
    \/ DecrementCounter_Get(p)
    \/ DecrementCounter_Put(p)
    \/ DecrementCounter_Commit(p)
    \/ DecrementCounter_Return(p)
    \/ Count_NewTransaction(p, ids)
    \/ Count_Get(p)
    \/ Count_Commit(p)
    \/ Count_Return(p)

\* Goroutines call the three methods on one counter.
OneCounter == {"a"}
CNext == \E p \in Procs : CStep(p, OneCounter)

\* A single-threaded caller calls the three methods with any entityID.
SeqNext == CStep(1, EntityIDs)

\* Two goroutines, each calling the three methods on a counter of its own.
DisjointNext == CStep(1, {"a"}) \/ CStep(2, {"b"})

\* Every call is IncrementCounter("a", 1).
Inc1_NewTransaction(p) ==
    \E fail \in FaultChoices : Enter(p, "IncrementCounter", "a", 1, fail)

Inc1Next ==
    \E p \in Procs :
        \/ Inc1_NewTransaction(p)
        \/ IncrementCounter_Get(p)
        \/ IncrementCounter_Put(p)
        \/ IncrementCounter_Commit(p)
        \/ IncrementCounter_Return(p)

\* ---------------------------------------------------------- constructors
\* const ( SIMPLE datatoreClientType = 1 + iota; EMULATOR; KEYFILE )
SIMPLE == 1
EMULATOR == 2
KEYFILE == 3

NumCallers == 2
MaxCtorCalls == 2

Callers == 1..NumCallers
EmulatorAddrs == {"localhost:8081"}
CredentialsPaths == {"", "/creds"}

NoArgs == [emulatorEnable |-> FALSE, datastoreEmulatorAddr |-> "",
           gcloudCredentialsPath |-> ""]

KInit ==
    /\ kpc = [c \in Callers |-> "idle"]
    /\ kfn = [c \in Callers |-> "none"]
    /\ kargs = [c \in Callers |-> NoArgs]
    /\ kmode = [c \in Callers |-> 0]
    /\ inst = [c \in Callers |-> 0]
    /\ handle = [c \in Callers |-> 0]
    /\ once = "fresh"
    /\ Instance = [alloc |-> FALSE, client |-> 0]
    /\ clients = <<>>
    /\ env = ""
    /\ exited = FALSE
    /\ kcalls = 0

\* A slip: the credentials path is looked at before the emulator flag.
getClientTypeKeyfileFirst(emulatorEnable, gcloudCredentialsPath) ==
    IF gcloudCredentialsPath # "" THEN KEYFILE
    ELSE IF emulatorEnable THEN EMULATOR
    ELSE SIMPLE

\* func getClientType(emulatorEnable bool, gcloudCredentialsPath string)
getClientType(emulatorEnable, gcloudCredentialsPath) ==
    IF emulatorEnable THEN EMULATOR
    ELSE IF gcloudCredentialsPath # "" THEN KEYFILE
    ELSE SIMPLE

\* The first statement of the case the switch selects.  New builds the
\* client before it sets the environment; the other constructors set the
\* environment first.
FirstOfCase(k, m) ==
    IF m = EMULATOR THEN (IF k = "New" THEN "NewClient" ELSE "Setenv")
    ELSE IF m = SIMPLE THEN "NewClient"
    ELSE IF m = KEYFILE THEN "ReadFile"
    ELSE "default"

\* The body of the constructor starts: the connector is allocated and the
\* switch on getClientType(...) picks its case; the default case is
\* log.Fatal("Unknown Datastore client").
StartBody(c, k, a) ==
    LET m == getClientType(a.emulatorEnable, a.gcloudCredentialsPath)
    IN  /\ kmode' = [kmode EXCEPT ![c] = m]
        /\ inst' = [inst EXCEPT ![c] = 0]
        /\ kpc' = [kpc EXCEPT ![c] = FirstOfCase(k, m)]
        /\ exited' = (FirstOfCase(k, m) = "default")

\* The call of a constructor that is not guarded by once.
Construct(c, k) ==
    /\ ~exited
    /\ kpc[c] = "idle"
    /\ kcalls < MaxCtorCalls
    /\ \E e \in BOOLEAN, addr \in EmulatorAddrs, path \in CredentialsPaths :
        LET a == [emulatorEnable |-> e, datastoreEmulatorAddr |-> addr,
                  gcloudCredentialsPath |-> path]
        IN  /\ kargs' = [kargs EXCEPT ![c] = a]
            /\ StartBody(c, k, a)
    /\ kfn' = [kfn EXCEPT ![c] = k]
    /\ kcalls' = kcalls + 1
    /\ UNCHANGED <<handle, once, Instance, clients, env>>
    /\ UNCHANGED <<cvars, evars>>

\* New(...): the call reaches once.Do.
New_Call(c) ==
    /\ ~exited
    /\ kpc[c] = "idle"
    /\ kcalls < MaxCtorCalls
    /\ \E e \in BOOLEAN, addr \in EmulatorAddrs, path \in CredentialsPaths :
        kargs' = [kargs EXCEPT ![c] = [emulatorEnable |-> e,
                                       datastoreEmulatorAddr |-> addr,
                                       gcloudCredentialsPath |-> path]]
    /\ kfn' = [kfn EXCEPT ![c] = "New"]
    /\ kpc' = [kpc EXCEPT ![c] = "once.Do"]
    /\ kcalls' = kcalls + 1
    /\ UNCHANGED <<kmode, inst, handle, once, Instance, clients, env, exited>>
    /\ UNCHANGED <<cvars, evars>>

\* once.Do(func() {...}): the first caller runs the function, a caller that
\* arrives while it runs waits, a caller that arrives later skips it.
New_OnceDo(c) ==
    /\ ~exited
    /\ kpc[c] = "once.Do"
    /\ once # "running"
    /\ IF once = "fresh"
       THEN /\ once' = "running"
            /\ Instance' = [alloc |-> TRUE, client |-> 0]
            /\ StartBody(c, "New", kargs[c])
       ELSE /\ kpc' = [kpc EXCEPT ![c] = "return"]
            /\ UNCHANGED <<once, Instance, kmode, inst, exited>>
    /\ UNCHANGED <<kfn, kargs, handle, clients, env, kcalls>>
    /\ UNCHANGED <<cvars, evars>>

\* os.Setenv("DATASTORE_EMULATOR_HOST", datastoreEmulatorAddr)
Setenv(c, k) ==
    /\ ~exited
    /\ kpc[c] = "Setenv"
    /\ kfn[c] = k
    /\ env' = kargs[c].datastoreEmulatorAddr
    /\ kpc' = [kpc EXCEPT ![c] = IF k = "New" THEN "return" ELSE "NewClient"]
    /\ once' = IF k = "New" THEN "done" ELSE once
    /\ UNCHANGED <<kfn, kargs, kmode, inst, handle, Instance, clients, exited, kcalls>>
    /\ UNCHANGED <<cvars, evars>>

\* ioutil.ReadFile(path.Join(gcloudCredentialsPath, "keyfile.json")) and
\* google.JWTConfigFromJSON(jsonKey, datastore.ScopeDatastore); an error of
\* either is log.Fatal.
ReadFile(c, k) ==
    /\ ~exited
    /\ kpc[c] = "ReadFile"
    /\ kfn[c] = k
    /\ \E ok \in BOOLEAN :
        /\ exited' = ~ok
        /\ kpc' = [kpc EXCEPT ![c] = IF ok THEN "NewClient" ELSE "Fatal"]
    /\ UNCHANGED <<kfn, kargs, kmode, inst, handle, once, Instance, clients, env, kcalls>>
    /\ UNCHANGED <<cvars, evars>>

\* datastore.NewClient(...); an error is log.Fatal.  The client is stored in
\* the connector being built, which for New is the package variable Instance.
NewClient(c, k) ==
    /\ ~exited
    /\ kpc[c] = "NewClient"
    /\ kfn[c] = k
    /\ \E ok \in BOOLEAN :
        IF ok
        THEN /\ clients' = Append(clients, [mode |-> kmode[c], host |-> env])
             /\ inst' = [inst EXCEPT ![c] = Len(clients) + 1]
             /\ Instance' = IF k = "New"
                            THEN [Instance EXCEPT !.client = Len(clients) + 1]
                            ELSE Instance
             /\ kpc' = [kpc EXCEPT ![c] =
                           IF k = "New" /\ kmode[c] = EMULATOR THEN "Setenv" ELSE "return"]
             /\ once' = IF k = "New" /\ kmode[c] # EMULATOR THEN "done" ELSE once
             /\ UNCHANGED exited
        ELSE /\ exited' = TRUE
             /\ kpc' = [kpc EXCEPT ![c] = "Fatal"]
             /\ UNCHANGED <<clients, inst, Instance, once>>
    /\ UNCHANGED <<kfn, kargs, kmode, handle, env, kcalls>>
    /\ UNCHANGED <<cvars, evars>>

\* return Instance
ReturnInstance(c, k) ==
    /\ ~exited
    /\ kpc[c] = "return"
    /\ kfn[c] = k
    /\ handle' = [handle EXCEPT ![c] = IF k = "New" THEN Instance.client ELSE inst[c]]
    /\ kpc' = [kpc EXCEPT ![c] = "idle"]
    /\ kfn' = [kfn EXCEPT ![c] = "none"]
    /\ kargs' = [kargs EXCEPT ![c] = NoArgs]
    /\ kmode' = [kmode EXCEPT ![c] = 0]
    /\ inst' = [inst EXCEPT ![c] = 0]
    /\ UNCHANGED <<once, Instance, clients, env, exited, kcalls>>
    /\ UNCHANGED <<cvars, evars>>

\* New of datasoreConnector.go
New_NewClient(c) == NewClient(c, "New")
New_Setenv(c) == Setenv(c, "New")
New_ReadFile(c) == ReadFile(c, "New")
New_Return(c) == ReturnInstance(c, "New")

\* NewAtomicConnector
NewAtomicConnector_Call(c) == Construct(c, "NewAtomicConnector")
NewAtomicConnector_Setenv(c) == Setenv(c, "NewAtomicConnector")
NewAtomicConnector_ReadFile(c) == ReadFile(c, "NewAtomicConnector")
NewAtomicConnector_NewClient(c) == NewClient(c, "NewAtomicConnector")
NewAtomicConnector_Return(c) == ReturnInstance(c, "NewAtomicConnector")

\* New of datastoreAtomicConnector.go, the constructor of the connector with
\* a CollectionName
NewBasic_Call(c) == Construct(c, "NewBasic")
NewBasic_Setenv(c) == Setenv(c, "NewBasic")
NewBasic_ReadFile(c) == ReadFile(c, "NewBasic")
NewBasic_NewClient(c) == NewClient(c, "NewBasic")
NewBasic_Return(c) == ReturnInstance(c, "NewBasic")

KNext ==
    \E c \in Callers :
        \/ New_Call(c)
        \/ New_OnceDo(c)
        \/ New_NewClient(c)
        \/ New_Setenv(c)
        \/ New_ReadFile(c)
        \/ New_Return(c)
        \/ NewAtomicConnector_Call(c)
        \/ NewAtomicConnector_Setenv(c)
        \/ NewAtomicConnector_ReadFile(c)
        \/ NewAtomicConnector_NewClient(c)
        \/ NewAtomicConnector_Return(c)
        \/ NewBasic_Call(c)
        \/ NewBasic_Setenv(c)
        \/ NewBasic_ReadFile(c)
        \/ NewBasic_NewClient(c)
        \/ NewBasic_Return(c)

\* ------------------------------------------------------ the entity service
MaxEntityCalls == 4

Contents == {"e1", "e2"}
NoContent == "none"

NoEntityResult == [op |-> "none", id |-> "", entity |-> NoContent, err |-> "nil",
                   key |-> "none", dst |-> NoContent, flag |-> FALSE]

EInit ==
    /\ ents = [id \in EntityIDs |-> NoContent]
    /\ autoEnts = <<>>
    /\ eret = NoEntityResult
    /\ eprev = NoEntityResult
    /\ everSaved = {}
    /\ efaults = 0
    /\ ecalls = 0

\* The store may fail an entity call while the failure budget lasts.
EntityFaultChoices == IF efaults < MaxFaults THEN BOOLEAN ELSE {FALSE}

\* An entity call is made and returns; r is what it returned.
EntityCall(r, fail) ==
    /\ ecalls < MaxEntityCalls
    /\ ecalls' = ecalls + 1
    /\ efaults' = efaults + (IF fail THEN 1 ELSE 0)
    /\ eprev' = eret
    /\ eret' = r

\* key, err = d.client.Put(d.ctx, inboundKey, entity): an upsert.  Under an
\* incomplete key the store allocates a key of its own and returns it.
ClientPut(op, id, e, fail) ==
    /\ EntityCall([op |-> op, id |-> id, entity |-> e,
                   err |-> IF fail THEN "error" ELSE "nil",
                   key |-> IF fail THEN "none"
                           ELSE IF Incomplete(id) THEN "allocated" ELSE id,
                   dst |-> NoContent, flag |-> FALSE], fail)
    /\ ents' = IF fail \/ Incomplete(id) THEN ents ELSE [ents EXCEPT ![id] = e]
    /\ autoEnts' = IF ~fail /\ Incomplete(id) THEN Append(autoEnts, e) ELSE autoEnts
    /\ everSaved' = IF fail THEN everSaved ELSE everSaved \cup {id}
    /\ UNCHANGED <<cvars, kvars>>

\* func (d *datastoreConnector) Save(entityID string, entity interface{})
Save(id, e) == \E fail \in EntityFaultChoices : ClientPut("Save", id, e, fail)

\* A slip: Update writes only over an entity that is there.
UpdateExisting(id, e) ==
    \E fail \in EntityFaultChoices :
        IF ~fail /\ ~Incomplete(id) /\ ents[id] = NoContent
        THEN /\ EntityCall([op |-> "Update", id |-> id, entity |-> e,
                            err |-> "ErrNoSuchEntity", key |-> "none",
                            dst |-> NoContent, flag |-> FALSE], FALSE)
             /\ UNCHANGED <<ents, autoEnts, everSaved, cvars, kvars>>
        ELSE ClientPut("Update", id, e, fail)

\* func (d *datastoreConnector) Update(entityID string, entity interface{})
Update(id, e) == \E fail \in EntityFaultChoices : ClientPut("Update", id, e, fail)

\* The outcome of d.client.Get(d.ctx, inboundKey, dst).
ClientGetOutcome(id, fail) ==
    IF Incomplete(id) THEN "ErrIncompleteKey"
    ELSE IF fail THEN "error"
    ELSE IF ents[id] = NoContent THEN "ErrNoSuchEntity"
    ELSE "nil"

\* func (d *datastoreConnector) Retrieve(entityID string, dst interface{})
Retrieve(id) ==
    \E fail \in EntityFaultChoices :
        LET e == ClientGetOutcome(id, fail)
        IN  /\ EntityCall([op |-> "Retrieve", id |-> id, entity |-> NoContent,
                           err |-> e, key |-> "none",
                           dst |-> IF e = "nil" THEN ents[id] ELSE NoContent,
                           flag |-> FALSE], fail /\ e = "error")
            /\ UNCHANGED <<ents, autoEnts, everSaved, cvars, kvars>>

\* The outcome of d.client.Delete(d.ctx, inboundKey); deleting an entity
\* that is not there is no error.
ClientDeleteOutcome(id, fail) ==
    IF Incomplete(id) THEN "ErrInvalidKey"
    ELSE IF fail THEN "error"
    ELSE "nil"

\* The polarity put right: deleted is true when the delete succeeded.
DeletedOnSuccess(e) == e = "nil"

\* if err := d.client.Delete(d.ctx, inboundKey); err != nil { deleted = true }
Deleted(e) == e # "nil"

\* func (d *datastoreConnector) Delete(entityID string) (deleted bool)
Delete(id) ==
    \E fail \in EntityFaultChoices :
        LET e == ClientDeleteOutcome(id, fail)
        IN  /\ EntityCall([op |-> "Delete", id |-> id, entity |-> NoContent,
                           err |-> e, key |-> "none", dst |-> NoContent,
                           flag |-> Deleted(e)], fail /\ e = "error")
            /\ ents' = IF e = "nil" THEN [ents EXCEPT ![id] = NoContent] ELSE ents
            /\ UNCHANGED <<autoEnts, everSaved, cvars, kvars>>

\* func (d *datastoreConnector) Exist(...): a count query filtered on the key;
\* exist is true when the query did not fail and counted more than 0.
Exist(id) ==
    \E fail \in EntityFaultChoices :
        LET amount == IF ~Incomplete(id) /\ ents[id] # NoContent THEN 1 ELSE 0
        IN  /\ EntityCall([op |-> "Exist", id |-> id, entity |-> NoContent,
                           err |-> IF fail THEN "error" ELSE "nil",
                           key |-> "none", dst |-> NoContent,
                           flag |-> (~fail /\ amount > 0)], fail)
            /\ UNCHANGED <<ents, autoEnts, everSaved, cvars, kvars>>

ENext ==
    \E id \in EntityIDs :
        \/ \E e \in Contents : Save(id, e)
        \/ \E e \in Contents : Update(id, e)
        \/ Retrieve(id)
        \/ Delete(id)
        \/ Exist(id)

\* --------------------------------------------------------- specifications
Init == CInit /\ KInit /\ EInit

\* Goroutines calling the counter methods on one counter.
Next == CNext
Spec == Init /\ [][Next]_vars

\* One goroutine calling the counter methods with any entityID.
SpecSeq == Init /\ [][SeqNext]_vars

\* Goroutines that only call IncrementCounter("a", 1).
SpecInc1 == Init /\ [][Inc1Next]_vars

\* Goroutines calling the constructors.
SpecCtor == Init /\ [][KNext]_vars

\* A goroutine inside a call keeps running: the scheduler runs every
\* goroutine that can take a step.  Making a call is not forced.
Running(p) == pc[p] # "idle" /\ CStep(p, OneCounter)
SpecFair == Spec /\ \A p \in Procs : WF_vars(Running(p))

\* Two goroutines calling the counter methods on different counters.
SpecDisjoint == Init /\ [][DisjointNext]_vars

\* Calls of the entity service; each is one call on the store, so the calls of
\* concurrent goroutines are the same as their calls in some order.
SpecEntity == Init /\ [][ENext]_vars

\* ------------------------------------------------------------- properties
\* The committed writes of one counter, in commit order.
Committed(id) == SelectSeq(hist, LAMBDA h : h.id = id)

\* What a committed call is specified to do to an amount.
Apply(a, h) ==
    IF h.fn = "IncrementCounter" THEN a + h.arg
    ELSE IF a - h.arg < 0 THEN 0 ELSE a - h.arg

RECURSIVE Replay(_, _)
Replay(a, s) == IF s = <<>> THEN a ELSE Replay(Apply(a, Head(s)), Tail(s))

Signed(h) == IF h.fn = "IncrementCounter" THEN h.arg ELSE 0 - h.arg

RECURSIVE SignedSum(_)
SignedSum(s) == IF s = <<>> THEN 0 ELSE Signed(Head(s)) + SignedSum(Tail(s))

Max0(n) == IF n < 0 THEN 0 ELSE n

\* Every call made has returned.
Quiescent == \A p \in Procs : pc[p] = "idle"

Mutators == {"IncrementCounter", "DecrementCounter"}

\* C1 as stated: once all of the N calls IncrementCounter("a", 1) have
\* returned, the counter is N.  Stated for the runs in which the store never
\* fails a call, so that only the interleaving of the callers is in question.
C1_CountIsN == (Quiescent /\ faults = 0) => Amount("a") = ncalls

\* C1 as amended: no update is lost. The counter equals the number of calls
\* whose write was enqueued and whose commit succeeded, which is at most N,
\* and is N once all calls have returned if no commit was refused for a
\* conflict and the store failed no call.
C1_NoLostUpdate ==
    /\ Amount("a") = Len(Committed("a"))
    /\ Amount("a") <= ncalls
    /\ (Quiescent /\ faults = 0 /\ aborts = 0) => Amount("a") = ncalls

\* Callers overlapped: all calls have returned, one commit was refused, the
\* others are all counted.
C1_Witness ==
    /\ Quiescent
    /\ ncalls = MaxCalls
    /\ faults = 0
    /\ aborts = 1
    /\ Amount("a") = MaxCalls - 1

\* C2: the stored AMOUNT of every counter is >= 0 in every committed state.
C2_AmountNonNegative == \A id \in EntityIDs : store[id].amount >= 0

\* C3 as stated: the AMOUNT of every counter is max(0, sum of the signed
\* deltas of the committed calls), and is never negative.  Stated for the
\* sequences of calls whose deltas are all >= 0, so that the formula itself
\* is in question and not the negative increments of C2.
C3_MaxOfSum ==
    \A id \in EntityIDs :
        (\A i \in 1..Len(Committed(id)) : Committed(id)[i].arg >= 0) =>
            /\ Amount(id) = Max0(SignedSum(Committed(id)))
            /\ Amount(id) >= 0

\* C3 as amended: the AMOUNT of every counter is the result of applying the
\* committed calls one after the other in commit order, starting from 0, an
\* increment adding its delta and a decrement subtracting its delta and
\* clamping at zero at that step.
C3_ReplayInCommitOrder ==
    \A id \in EntityIDs : Amount(id) = Replay(0, Committed(id))

\* A decrement clamped in the middle of a sequence of calls with deltas >= 0:
\* the replay and the clamped sum differ.
C3_Witness ==
    \E id \in EntityIDs :
        /\ Len(Committed(id)) = 3
        /\ \A i \in 1..3 : Committed(id)[i].arg >= 0
        /\ Amount(id) # Max0(SignedSum(Committed(id)))

\* C4: IncrementCounter and DecrementCounter return success=true if and only
\* if no step of the call (transaction open, read, write, commit) failed
\* with an unexpected error.
C4_SuccessIffNoStepFailed ==
    lastRet.fn \in Mutators => (lastRet.success <=> ~lastRet.failed)

\* C5: no call crashes; a call whose transaction could not be opened or
\* whose key the store rejects returns normally, with success=false or
\* amount 0.
C5_NeverCrashes ==
    /\ ~crashed
    /\ \A p \in Procs : pc[p] # "panic"
    /\ (lastRet.fn # "none" /\ lastRet.entityID = "") =>
           (~lastRet.success /\ lastRet.amount = 0)

\* C6: a DecrementCounter whose steps all succeed commits 0 when its delta
\* is greater than the current AMOUNT and AMOUNT - delta otherwise, and
\* returns success=true.
C6_DecrementClamps ==
    /\ [][\A p \in Procs :
            (/\ fn[p] = "DecrementCounter"
             /\ pc[p] = "Commit"
             /\ pc'[p] = "return"
             /\ ~obs'[p].failed)
            => (/\ store'[entityID[p]].present
                /\ store'[entityID[p]].amount =
                       (IF arg[p] > Amount(entityID[p]) THEN 0
                        ELSE Amount(entityID[p]) - arg[p]))]_vars
    /\ [](lastRet.fn = "DecrementCounter" /\ ~lastRet.failed => lastRet.success)

\* A decrement by more than a positive AMOUNT has committed 0 and returned
\* success=true.
C6_Witness ==
    /\ lastRet.fn = "DecrementCounter"
    /\ lastRet.success
    /\ ~lastRet.failed
    /\ lastRet.before > 0
    /\ lastRet.arg > lastRet.before
    /\ Amount(lastRet.entityID) = 0

\* C7: with a single caller, a Count that follows a successful
\* IncrementCounter(id, delta) on the same id returns the amount before the
\* increment plus delta.  Stated for the Counts none of whose own steps
\* fails.
C7_ReadYourWrite ==
    \A p \in Procs :
        (/\ fn[p] = "Count"
         /\ pc[p] = "return"
         /\ ~obs[p].failed
         /\ lastRet.fn = "IncrementCounter"
         /\ lastRet.success
         /\ lastRet.entityID = entityID[p])
        => CountAmount(err[p], counter[p]) = lastRet.before + lastRet.arg

\* What a Count that returns has returned: 0 when one of its steps failed,
\* otherwise the stored AMOUNT (0 for an absent counter).
CountReturns == lastRet.fn = "Count" =>
    lastRet.amount = (IF lastRet.failed THEN 0 ELSE lastRet.before)

\* C8: with a single caller, Count returns the stored AMOUNT when its read
\* and commit succeed and 0 when the counter is absent or a step of the
\* Count (open, read, commit) fails; whichever step fails, it returns.
C8_CountResult ==
    /\ CountReturns
    /\ \A p \in Procs : fn[p] = "Count" => pc[p] # "panic"

\* C9: at most one client is ever constructed, and every constructor call
\* returns that same handle.
C9_SingleHandle ==
    /\ Len(clients) <= 1
    /\ \A c1, c2 \in Callers :
           (handle[c1] # 0 /\ handle[c2] # 0) => handle[c1] = handle[c2]

\* C10: the mode a constructor switches on is exactly one of the three
\* modes: EMULATOR when emulatorEnable is true whatever the credentials
\* path, otherwise KEYFILE when the credentials path is non-empty, otherwise
\* SIMPLE.
InBody(c) == kpc[c] \in {"Setenv", "ReadFile", "NewClient", "Fatal", "default"}

C10_ModeSelection ==
    \A c \in Callers :
        InBody(c) =>
            /\ kmode[c] \in {SIMPLE, EMULATOR, KEYFILE}
            /\ kpc[c] # "default"
            /\ kargs[c].emulatorEnable => kmode[c] = EMULATOR
            /\ (~kargs[c].emulatorEnable /\ kargs[c].gcloudCredentialsPath # "")
                   => kmode[c] = KEYFILE
            /\ (~kargs[c].emulatorEnable /\ kargs[c].gcloudCredentialsPath = "")
                   => kmode[c] = SIMPLE

\* The emulator is selected although a credentials path is given.
C10_Witness ==
    \E c \in Callers :
        /\ kpc[c] = "NewClient"
        /\ kargs[c].emulatorEnable
        /\ kargs[c].gcloudCredentialsPath # ""
        /\ kmode[c] = EMULATOR

\* C11: Delete returns true exactly when the delete of the store returned an
\* error and false exactly when it succeeded, and after a delete that
\* succeeded the entity is absent.
C11_DeleteReportsError ==
    eret.op = "Delete" =>
        /\ eret.flag <=> (eret.err # "nil")
        /\ eret.err = "nil" => ents[eret.id] = NoContent

\* A stored entity was deleted and Delete returned false; the next Delete was
\* failed by the store and returned true.
C11_Witness ==
    /\ eprev.op = "Delete" /\ eprev.err = "nil" /\ ~eprev.flag
    /\ eprev.id \in everSaved
    /\ eret.op = "Delete" /\ eret.err = "error" /\ eret.flag

\* The last two calls were a Save or Update that returned no error and a
\* Retrieve of the same id.
SavedThenRetrieved ==
    /\ eprev.op \in {"Save", "Update"}
    /\ eprev.err = "nil"
    /\ eret.op = "Retrieve"
    /\ eret.id = eprev.id

\* C12 as stated: a Retrieve that directly follows a Save or Update of the
\* same id fills dst with the saved entity and returns no error, and a
\* Retrieve of an id never saved returns not-found.  Stated for the Retrieves
\* the store did not fail.
C12_RoundTrip ==
    /\ (SavedThenRetrieved /\ eret.err # "error") =>
           (eret.err = "nil" /\ eret.dst = eprev.entity)
    /\ (eret.op = "Retrieve" /\ eret.id \notin everSaved /\ eret.err # "error") =>
           eret.err = "ErrNoSuchEntity"

\* C12 as amended: the round trip and the not-found result hold for every
\* non-empty id; Save and Update alike fail only when the store fails the
\* call, and when they succeed on a non-empty id the entity is stored under
\* that id, whether or not one was there.
C12_RoundTripNamedKey ==
    /\ (SavedThenRetrieved /\ ~Incomplete(eret.id) /\ eret.err # "error") =>
           (eret.err = "nil" /\ eret.dst = eprev.entity)
    /\ (eret.op = "Retrieve" /\ ~Incomplete(eret.id) /\ eret.id \notin everSaved
            /\ eret.err # "error") =>
           eret.err = "ErrNoSuchEntity"
    /\ eret.op \in {"Save", "Update"} =>
           /\ eret.err \in {"nil", "error"}
           /\ (eret.err = "nil" /\ ~Incomplete(eret.id)) =>
                  (ents[eret.id] = eret.entity /\ eret.key = eret.id)

\* An Update stored an entity under an id where none was, and the Retrieve
\* that followed returned it.
C12_Witness ==
    /\ SavedThenRetrieved
    /\ eprev.op = "Update"
    /\ ecalls = 2
    /\ eret.err = "nil"
    /\ eret.dst = eprev.entity

\* The statements of a call in the order of the code.
PcRank(s) ==
    CASE s = "idle" -> 0
      [] s = "Get" -> 1
      [] s = "Put" -> 2
      [] s = "Commit" -> 3
      [] s = "return" -> 4
      [] s = "panic" -> 5

\* The part of C13 about retries: a call never goes back to a statement, so
\* it reads, writes and commits at most once, and a call whose commit was
\* refused for a conflict returns success = false having written nothing.
C13_NoRetry ==
    /\ [][\A p \in Procs :
            pc'[p] # pc[p] =>
                \/ PcRank(pc'[p]) > PcRank(pc[p])
                \/ pc[p] = "return" /\ pc'[p] = "idle"]_vars
    /\ [][\A p \in Procs :
            (pc[p] = "return" /\ pc'[p] = "idle" /\ fn[p] \in Mutators
                /\ err[p] = "ErrConcurrentTransaction") =>
                (~lastRet'.success /\ ~lastRet'.wrote /\ store' = store)]_vars

\* Every call that does not end the process returns.
C13_ReturnsUnlessCrashed ==
    \A p \in Procs : (pc[p] # "idle") ~> (pc[p] = "idle" \/ crashed)

\* C13: there is no retry on contention, the call whose commit was refused
\* returns success = false after one attempt, and every call that was made
\* returns in the end.
C13_NoRetryAndReturns ==
    /\ C13_NoRetry
    /\ \A p \in Procs : (pc[p] # "idle") ~> (pc[p] = "idle")

\* The part of C14 that is about NewAtomicConnector and the New of
\* datastoreAtomicConnector.go: the client they build in EMULATOR mode is
\* built with the caller's emulator address in the environment.
C14_OtherConstructors ==
    [][\A c \in Callers :
          (kpc[c] = "NewClient" /\ kfn[c] # "New" /\ kmode[c] = EMULATOR
              /\ Len(clients') > Len(clients)) =>
              clients'[Len(clients')].host = kargs[c].datastoreEmulatorAddr]_vars

\* C14: in EMULATOR mode the emulator address is in DATASTORE_EMULATOR_HOST
\* before the client is constructed, in every constructor: every client built
\* in EMULATOR mode was built with an emulator address in the environment.
C14_EnvBeforeClient ==
    \A i \in 1..Len(clients) :
        clients[i].mode = EMULATOR => clients[i].host \in EmulatorAddrs

\* Caller p commits an IncrementCounter or DecrementCounter none of whose
\* steps failed.
CommitsUnfailed(p) ==
    /\ fn[p] \in Mutators
    /\ pc[p] = "Commit"
    /\ pc'[p] = "return"
    /\ ~obs'[p].failed

\* C15 as stated: an IncrementCounter(id, 0) or a DecrementCounter(id, d)
\* that succeeds on an absent id creates the record with AMOUNT 0, and a call
\* with delta 0 that succeeds on an existing counter writes the same AMOUNT
\* again.  Stated for the calls none of whose steps fails.
C15_AbsentIsZero ==
    [][\A p \in Procs :
          CommitsUnfailed(p) =>
              LET id == entityID[p]
              IN  /\ (~store[id].present
                         /\ (fn[p] = "DecrementCounter" \/ arg[p] = 0)) =>
                         (store'[id].present /\ store'[id].amount = 0)
                  /\ (store[id].present /\ arg[p] = 0) =>
                         (/\ store'[id].present
                          /\ store'[id].amount = store[id].amount
                          /\ store'[id].ver = store[id].ver + 1)]_vars

\* C15 as amended: on an absent id IncrementCounter(id, 0) creates the record
\* with AMOUNT 0 and DecrementCounter(id, d) creates it with AMOUNT 0 when
\* d >= 0 and with AMOUNT -d when d < 0; on an existing counter
\* IncrementCounter(id, 0) writes the same AMOUNT again and
\* DecrementCounter(id, 0) writes max(0, AMOUNT).  The write is made in
\* every case.
C15_AbsentIsZeroClamped ==
    [][\A p \in Procs :
          CommitsUnfailed(p) =>
              LET id == entityID[p]
              IN  /\ store'[id].present
                  /\ store'[id].ver = store[id].ver + 1
                  /\ (~store[id].present /\ fn[p] = "IncrementCounter"
                         /\ arg[p] = 0) => store'[id].amount = 0
                  /\ (~store[id].present /\ fn[p] = "DecrementCounter") =>
                         store'[id].amount = Max0(0 - arg[p])
                  /\ (store[id].present /\ fn[p] = "IncrementCounter"
                         /\ arg[p] = 0) => store'[id].amount = store[id].amount
                  /\ (store[id].present /\ fn[p] = "DecrementCounter"
                         /\ arg[p] = 0) =>
                         store'[id].amount = Max0(store[id].amount)]_vars

\* IncrementCounter("a", 0) was the first write to be committed: it has
\* created the record with AMOUNT 0 and returned success=true.
C15_Witness ==
    /\ lastRet.fn = "IncrementCounter"
    /\ lastRet.arg = 0
    /\ lastRet.success
    /\ lastRet.wrote
    /\ Len(hist) = 1
    /\ store[lastRet.entityID].present
    /\ store[lastRet.entityID].amount = 0

\* C16: the stored AMOUNT of every counter is what applying, in commit order
\* and starting from 0, exactly the calls that returned success=true gives:
\* the amount is the replay of the committed writes, and a call returns
\* success=true exactly when its write is one of them.
C16_Linearizable ==
    /\ \A id \in EntityIDs : Amount(id) = Replay(0, Committed(id))
    /\ lastRet.fn \in Mutators => (lastRet.success <=> lastRet.wrote)

\* The part of C16 left by C4: a call whose write was committed returned
\* success=true.
C16_CommittedReturnsTrue ==
    (lastRet.fn \in Mutators /\ lastRet.wrote) => lastRet.success

C17_SameAsBefore ==
    (Quiescent /\ (lastRet.fn \in Mutators) /\ ~lastRet.success) =>
        Amount(lastRet.entityID) = lastRet.before

C18_CountReadOnly ==
    [][\A p \in Procs :
          ((fn[p] = "Count" /\ pc'[p] # pc[p]) \/ (fn'[p] = "Count" /\ fn[p] # "Count"))
              => (store' = store /\ hist' = hist)]_vars

\* A Count of an absent counter has returned 0 and the counter is still
\* absent.
C18_Witness ==
    /\ lastRet.fn = "Count"
    /\ ~lastRet.failed
    /\ lastRet.amount = 0
    /\ ~store[lastRet.entityID].present

\* The entity id of the call in which caller p takes the step.
StepID(p) == IF pc[p] = "idle" THEN entityID'[p] ELSE entityID[p]

\* C19: a step of a call on one id leaves the counter of every other id as
\* it was, and calls that run concurrently on different ids never fail one
\* another: no commit is refused for a conflict, and a call fails only when
\* the store failed one of its steps.
C19_DisjointIndependent ==
    /\ [][\A p \in Procs :
            pc'[p] # pc[p] =>
                \A id \in EntityIDs \ {StepID(p)} : store'[id] = store[id]]_vars
    /\ [](aborts = 0)
    /\ [](lastRet.failed => faults > 0)

\* Two calls on different ids are in progress at the same time, each the
\* first to write its counter, and the commits of both have succeeded.
C19_Witness ==
    /\ \A p \in {1, 2} :
        /\ pc[p] = "return"
        /\ fn[p] \in Mutators
        /\ obs[p].wrote
        /\ t[p].readVer = 0
    /\ entityID[1] # entityID[2]
    /\ Len(hist) = 2
====
